---- MODULE Spec2Model ----
(***************************************************************************)
(* Model of sktime/clustering_redo/partitioning/_lloyds.py: the assignment *)
(* step (_assign_clusters), the forgy initializer, and the life cycle of a *)
(* _Lloyds estimator (__init__, _check_params, _fit, _predict).            *)
(*                                                                         *)
(* Arrays are functions over 0 .. n-1, so indexes are the code's indexes.  *)
(* An instance is a univariate series of length 1, identified with its     *)
(* single integer sample; X of shape (n, 1) is a function 0..n-1 -> sample.*)
(* Python's None is the string "None"; an ndarray attribute is a record    *)
(* [kind, data] so that an unset attribute, an index array and an array of *)
(* series are told apart.                                                  *)
(***************************************************************************)
EXTENDS Integers, FiniteSets

VARIABLES
    self,    \* the _Lloyds estimator object: parameters and fitted state
    call,    \* the last public call made on the estimator and what it did
    nfits,   \* number of _fit calls made so far
    pure     \* one application of the pure function _assign_clusters

vars == <<self, call, nfits, pure>>

(***************************************************************************)
(* Bounds of the model.                                                    *)
(***************************************************************************)
MaxN == 2         \* at most MaxN instances in an instance set
MaxSample == 2    \* samples are 0 .. MaxSample
MaxK == 3         \* _assign_clusters is applied to 1 .. MaxK centers
MaxSeed == 3      \* integer seeds are 0 .. MaxSeed
MaxFits == 2      \* at most MaxFits _fit calls on one estimator

Size(a) == Cardinality(DOMAIN a)

Arrays(n, S) == [0 .. n - 1 -> S]

Samples == 0 .. MaxSample

\* Every instance set X with 1 .. MaxN instances.
InstanceSets == UNION {Arrays(n, Samples) : n \in 1 .. MaxN}

\* Every array of 1 .. MaxK indexes into an instance set of n instances.
CenterIndexArrays(n) == UNION {Arrays(k, 0 .. n - 1) : k \in 1 .. MaxK}

(***************************************************************************)
(* Distance callables.  A callable is named by a string; Distance applies  *)
(* it to two series.  "euclidean" and "squared" are registry metrics,      *)
(* "cyclic" and "zero" are user callables (the first asymmetric, the       *)
(* second constant: every center ties).                                    *)
(***************************************************************************)
Metrics == {"euclidean", "squared", "cyclic", "zero"}

Abs(v) == IF v < 0 THEN -v ELSE v

Distance(metric, a, b) ==
    CASE metric = "euclidean" -> Abs(a - b)
      [] metric = "squared"   -> (a - b) * (a - b)
      [] metric = "cyclic"    -> (a - b) % (MaxSample + 1)
      [] metric = "zero"      -> 0

\* pairwise_distance(x, y, metric): the matrix of distance(x[i], y[j]).
pairwise_distance(x, y, metric) ==
    [i \in DOMAIN x |-> [j \in DOMAIN y |-> Distance(metric, x[i], y[j])]]

\* X[center_indexes, :]: the rows of X at the given indexes, in that order.
Take(X, center_indexes) ==
    [j \in DOMAIN center_indexes |-> X[center_indexes[j]]]

(***************************************************************************)
(* ndarray.argmin along one row: a left-to-right scan that moves to a new  *)
(* index only on a strictly smaller value (the first minimum is kept).     *)
(***************************************************************************)
RECURSIVE ArgMinScan(_, _, _)
ArgMinScan(row, j, best) ==
    IF j >= Size(row) THEN best
    ELSE ArgMinScan(row, j + 1, IF row[j] < row[best] THEN j ELSE best)

\* The same scan moving on a smaller or equal value: the last minimum.
RECURSIVE ArgMinLastScan(_, _, _)
ArgMinLastScan(row, j, best) ==
    IF j >= Size(row) THEN best
    ELSE ArgMinLastScan(row, j + 1, IF row[j] <= row[best] THEN j ELSE best)

ArgMinLast(row) == ArgMinLastScan(row, 1, 0)

ArgMin(row) == ArgMinScan(row, 1, 0)

\* m.argmin(axis=1): one index per row of m.
ArgMinAxis1(m) == [i \in DOMAIN m |-> ArgMin(m[i])]

\* m.argmin(axis=0): one index per column of m.
ArgMinAxis0(m) ==
    LET cols == IF Size(m) = 0 THEN {} ELSE DOMAIN m[0]
    IN  [j \in cols |-> ArgMin([i \in DOMAIN m |-> m[i][j]])]

\* _assign_clusters reducing along the wrong axis.
_assign_clusters_axis0(X, distance, center_indexes) ==
    ArgMinAxis0(pairwise_distance(X, Take(X, center_indexes), distance))

_assign_clusters(X, distance, center_indexes) ==
    ArgMinAxis1(pairwise_distance(X, Take(X, center_indexes), distance))

(***************************************************************************)
(* Python values of the estimator's attributes.                            *)
(***************************************************************************)
None == "None"

NoArray == [kind |-> "None", data |-> <<>>]

\* A 1d ndarray of integer indexes (center indexes, labels).
IndexArray(a) == [kind |-> "index", data |-> a]

NoRandomState == [kind |-> "None", seed |-> 0, pos |-> 0]

\* np.random.RandomState(seed): a generator at the start of the stream
\* that its seed determines.
RandomState(seed) == [kind |-> "RandomState", seed |-> seed, pos |-> 0]

\* The pos-th raw draw of the stream of a seed: a fixed function of the seed
\* and the position (digit pos of the seed in base MaxN), so that the seeds
\* 0 .. MaxN^k - 1 give every outcome of k draws.
StreamAt(seed, pos) == (seed \div (MaxN ^ pos)) % MaxN

\* random_state.choice(a, size), replace=True: size draws from 0 .. a-1.
choice(random_state, a, size) ==
    [j \in 0 .. size - 1 |-> StreamAt(random_state.seed, random_state.pos + j) % a]

\* The generator after size draws (choice mutates the generator in place).
Advance(random_state, size) == [random_state EXCEPT !.pos = @ + size]

IntSeed(v) == [type |-> "int", val |-> v]

NoSeed == [type |-> "None", val |-> 0]

Seeds == 0 .. MaxSeed

\* check_random_state(seed): a fresh RandomState for an int; for None the
\* global numpy generator, whose state is not determined by the program.
check_random_state(seed) ==
    IF seed.type = "int" THEN {RandomState(seed.val)}
    ELSE {RandomState(v) : v \in Seeds}

\* distance_factory(x, y, metric): the callable of the metric.
distance_factory(x, y, metric) == metric

(***************************************************************************)
(* Center initializers.                                                    *)
(***************************************************************************)
_forgy_center_initializer(X, n_centers, random_state) ==
    choice(random_state, Size(X), n_centers)

\* A user-supplied initializer callable: the first n_centers indexes.
user_init(X, n_centers, random_state) ==
    [j \in 0 .. n_centers - 1 |-> j % Size(X)]

Str(v) == [type |-> "str", val |-> v]

Callable(v) == [type |-> "callable", val |-> v]

\* The class attribute _init_algorithms: name -> function (None for "random").
_init_algorithms ==
    [name \in {"forgy", "random"} |->
        IF name = "forgy" THEN "_forgy_center_initializer" ELSE None]

\* dict.get(key): the value, or None for a missing key.
DictGet(d, key) == IF key \in DOMAIN d THEN d[key] ELSE None

\* isinstance(f, Callable)
IsCallable(f) == f \in {"_forgy_center_initializer", "user_init"}

(***************************************************************************)
(* The estimator.  max_iter, tol and verbose are stored by __init__ and    *)
(* read nowhere; they are left out of the record.                          *)
(***************************************************************************)
Lloyds(n_clusters, init_algorithm, metric, n_init, random_state) ==
    [n_clusters       |-> n_clusters,
     init_algorithm   |-> init_algorithm,
     metric           |-> metric,
     n_init           |-> n_init,
     random_state     |-> random_state,
     cluster_centers_ |-> NoArray,
     labels_          |-> NoArray,
     intertia_        |-> None,
     n_iter           |-> 0,
     _init_algorithm  |-> None,
     _distance_metric |-> None,
     _random_state    |-> NoRandomState]

\* The result of running a method: the object afterwards, the exception
\* raised ("None" when the method returned), the value returned, what was
\* printed, and what the run did: initializer runs, indexes drawn from the
\* generator, distance evaluations.
Outcome(s, raised, ret, stdout, runs, drawn, evals) ==
    [self |-> s, raised |-> raised, ret |-> ret, stdout |-> stdout,
     runs |-> runs, drawn |-> drawn, evals |-> evals]

\* _check_params; rs is the generator check_random_state yields.
_check_params(s, X, rs) ==
    LET s1 == IF s._random_state = NoRandomState
              THEN [s EXCEPT !._random_state = rs]
              ELSE s
    IN  IF Size(X) < 2
        THEN \* X[1] of a single instance
             Outcome(s1, "IndexError", NoArray, NoArray, 0, 0, 0)
        ELSE
          LET s2 == [s1 EXCEPT !._distance_metric =
                                   distance_factory(X[0], X[1], s1.metric)]
              s3 == [s2 EXCEPT !._init_algorithm =
                                   IF s2.init_algorithm.type = "str"
                                   THEN DictGet(_init_algorithms,
                                                s2.init_algorithm.val)
                                   ELSE s2.init_algorithm.val]
          IN  IF ~IsCallable(s3._init_algorithm)
              THEN Outcome(s3, "ValueError", NoArray, NoArray, 0, 0, 0)
              ELSE Outcome(s3, None, NoArray, NoArray, 0, 0, 0)

\* _numba_lloyds: one assignment, printed (the only print the model keeps);
\* the center update is a stub and nothing is returned.  Raises when there
\* is no center to take argmin over.
_numba_lloyds(s, X, distance, initial_center_indexes) ==
    IF Size(initial_center_indexes) = 0
    THEN Outcome(s, "ValueError", NoArray, NoArray, 1,
                 0, 0)
    ELSE Outcome(s, None, NoArray,
                 IndexArray(_assign_clusters(X, distance,
                                             initial_center_indexes)),
                 1, 0, Size(X) * Size(initial_center_indexes))

\* _fit; rs is the generator check_random_state yields.
_fit(s, X, rs) ==
    LET chk == _check_params(s, X, rs)
        s1  == chk.self
        forgy == s1._init_algorithm = "_forgy_center_initializer"
    IN  IF chk.raised # None THEN chk
        ELSE IF forgy /\ s1.n_clusters < 0
        THEN \* choice with a negative size raises and draws nothing
             Outcome(s1, "ValueError", NoArray, NoArray, 1, 0, 0)
        ELSE
          LET centers == IF forgy
                         THEN _forgy_center_initializer(X, s1.n_clusters,
                                                        s1._random_state)
                         ELSE user_init(X, s1.n_clusters, s1._random_state)
              drawn   == IF forgy THEN Size(centers) ELSE 0
              s2 == [s1 EXCEPT
                       !.cluster_centers_ = IndexArray(centers),
                       !._random_state = Advance(@, drawn)]
              run == _numba_lloyds(s2, X, s2._distance_metric, centers)
          IN  [run EXCEPT !.drawn = drawn]

\* _predict: the body is pass.
_predict(s, X) == Outcome(s, None, NoArray, NoArray, 0, 0, 0)

(***************************************************************************)
(* The estimator's life: constructed once, then fit and predict calls.     *)
(***************************************************************************)
\* Cluster counts: negative, zero, valid, and larger than any instance set.
NClusters == -1 .. MaxN + 1

NInits == 1 .. 2

InitAlgorithms ==
    {Str("forgy"), Str("random"), Str("bogus"), Callable("user_init")}

RandomStates == {IntSeed(v) : v \in Seeds} \cup {NoSeed}

NoCall == [op |-> "none", X |-> <<>>, raised |-> None, ret |-> NoArray,
           stdout |-> NoArray, runs |-> 0, drawn |-> 0, evals |-> 0]

CallOf(op, X, out) ==
    [op |-> op, X |-> X, raised |-> out.raised, ret |-> out.ret,
     stdout |-> out.stdout, runs |-> out.runs, drawn |-> out.drawn,
     evals |-> out.evals]

Idle == [fn |-> "idle", X |-> <<>>, distance |-> None,
         center_indexes |-> <<>>, ret |-> <<>>]

Init ==
    /\ self \in {Lloyds(k, ia, m, ni, rs) :
                    k \in NClusters, ia \in InitAlgorithms, m \in Metrics,
                    ni \in NInits, rs \in RandomStates}
    /\ call = NoCall
    /\ nfits = 0
    /\ pure = Idle

Fit(X) ==
    /\ nfits < MaxFits
    /\ \E rs \in check_random_state(self.random_state) :
          LET out == _fit(self, X, rs)
          IN  /\ self' = out.self
              /\ call' = CallOf("fit", X, out)
    /\ nfits' = nfits + 1
    /\ UNCHANGED pure

Predict(X) ==
    /\ LET out == _predict(self, X)
       IN  /\ self' = out.self
           /\ call' = CallOf("predict", X, out)
    /\ UNCHANGED <<nfits, pure>>

Next ==
    \/ \E X \in InstanceSets : Fit(X)
    \/ \E X \in InstanceSets : Predict(X)

Spec == Init /\ [][Next]_vars

(***************************************************************************)
(* The assignment step on its own: every instance set, every distance      *)
(* callable and every array of center indexes, then one application.       *)
(***************************************************************************)
InitAssign ==
    /\ self = Lloyds(8, Str("forgy"), "euclidean", 10, NoSeed)
    /\ call = NoCall
    /\ nfits = 0
    /\ \E X \in InstanceSets, distance \in Metrics :
         \E center_indexes \in CenterIndexArrays(Size(X)) :
            pure = [fn |-> "pending", X |-> X, distance |-> distance,
                    center_indexes |-> center_indexes, ret |-> <<>>]

Assign ==
    /\ pure.fn = "pending"
    /\ pure' = [pure EXCEPT
                  !.fn = "_assign_clusters",
                  !.ret = _assign_clusters(pure.X, pure.distance,
                                           pure.center_indexes)]
    /\ UNCHANGED <<self, call, nfits>>

NextAssign == Assign

SpecAssign == InitAssign /\ [][NextAssign]_vars

(***************************************************************************)
(* Properties.                                                             *)
(***************************************************************************)
Applied == pure.fn = "_assign_clusters"

\* The distance from instance i of the applied call to its center number l.
D(i, l) == Distance(pure.distance, pure.X[i], pure.X[pure.center_indexes[l]])

\* C1: the label vector returned by _assign_clusters has one entry per
\* instance, indexed as the instances are, and every entry is a cluster
\* index in [0, k), k being the number of center indexes.
C1_LabelVectorInRange ==
    Applied =>
        /\ DOMAIN pure.ret = DOMAIN pure.X
        /\ \A i \in DOMAIN pure.ret :
              pure.ret[i] \in 0 .. Size(pure.center_indexes) - 1

\* C1 witness: two instances, three centers, and both ends of the range
\* [0, 3) occur as labels.
C1_Witness ==
    /\ Applied
    /\ Size(pure.X) = 2
    /\ Size(pure.center_indexes) = 3
    /\ pure.ret[0] = 2
    /\ pure.ret[1] = 0

\* C2: the label of each instance is a center at minimal distance over all
\* centers, and among the centers at that minimal distance the one of
\* lowest index: no center is strictly closer, and no center of smaller
\* index is as close.
C2_NearestLowestIndex ==
    Applied =>
        \A i \in DOMAIN pure.X :
            /\ pure.ret[i] \in DOMAIN pure.center_indexes
            /\ \A l \in DOMAIN pure.center_indexes :
                  D(i, l) >= D(i, pure.ret[i])
            /\ \A l \in 0 .. pure.ret[i] - 1 :
                  D(i, l) > D(i, pure.ret[i])

\* C2 witness: an instance whose nearest centers are centers 1 and 2, at the
\* same distance, with center 0 strictly farther; it is labelled 1.
C2_Witness ==
    /\ Applied
    /\ Size(pure.center_indexes) = 3
    /\ \E i \in DOMAIN pure.X :
          /\ pure.ret[i] = 1
          /\ D(i, 2) = D(i, 1)
          /\ D(i, 0) > D(i, 1)

FitCalled == call.op = "fit"

FitReturned == call.op = "fit" /\ call.raised = None

\* C3: a fit with an init_algorithm string that is no key of the registry
\* ends in ValueError, runs no initializer and sets no centers.
C3_UnknownInitIsValueError ==
    (/\ FitCalled
     /\ self.init_algorithm.type = "str"
     /\ self.init_algorithm.val \notin DOMAIN _init_algorithms)
    => /\ call.raised = "ValueError"
       /\ call.runs = 0
       /\ self.cluster_centers_ = NoArray

\* C4: a fit with n_clusters <= 0 or n_clusters > n ends in an error, and
\* the call has drawn no index from the generator and evaluated no distance.
C4_BadClusterCountRejected ==
    (/\ FitCalled
     /\ \/ self.n_clusters <= 0
        \/ self.n_clusters > Size(call.X))
    => /\ call.raised # None
       /\ call.drawn = 0
       /\ call.evals = 0

\* C5: with an integer seed, a fit that follows a fit on the same instance
\* set (the configuration is the estimator's own, hence the same) produces
\* the same centers, labels and inertia.
C5_RepeatedFitIdentical ==
    [][(/\ self.random_state.type = "int"
        /\ FitReturned
        /\ call'.op = "fit"
        /\ call'.raised = None
        /\ call'.X = call.X)
       => /\ self'.cluster_centers_ = self.cluster_centers_
          /\ self'.labels_ = self.labels_
          /\ self'.intertia_ = self.intertia_
          /\ call'.stdout = call.stdout]_vars

\* C6: a fit that returns has run the initialize-then-iterate pipeline
\* n_init times (the runs among which the lowest inertia is selected).
C6_RunsNInitTimes ==
    FitReturned => call.runs = self.n_init

\* C7: predict on the instance set of the fit that precedes it returns a
\* label vector with one entry per instance, equal to labels_.
C7_PredictReproducesLabels ==
    [][(/\ FitReturned
        /\ call'.op = "predict"
        /\ call'.X = call.X)
       => /\ call'.ret.kind = "index"
          /\ DOMAIN call'.ret.data = DOMAIN call'.X
          /\ call'.ret = self'.labels_]_vars

\* C8: after a fit that returns, cluster_centers_ holds k series (not
\* indexes), labels_ a label vector of length n, and the inertia and the
\* iteration count are set.
C8_FittedStateComplete ==
    FitReturned =>
        /\ self.cluster_centers_.kind = "series"
        /\ Size(self.cluster_centers_.data) = self.n_clusters
        /\ self.labels_.kind = "index"
        /\ Size(self.labels_.data) = Size(call.X)
        /\ self.intertia_ # None
        /\ self.n_iter > 0

\* C9: a fit that _check_params aborts with ValueError (no initializer has
\* run) leaves the estimator as it was before the call.
C9_FailedFitChangesNothing ==
    [][(/\ nfits' = nfits + 1
        /\ call'.op = "fit"
        /\ call'.raised = "ValueError"
        /\ call'.runs = 0)
       => self' = self]_vars

\* C10: with the forgy initializer and 1 <= k <= n, every cluster index in
\* [0, k) labels an instance in the first assignment after initialization.
C10_NoEmptyClusterAfterForgy ==
    (/\ FitReturned
     /\ self._init_algorithm = "_forgy_center_initializer"
     /\ self.n_clusters >= 1
     /\ self.n_clusters <= Size(call.X))
    => \A j \in 0 .. self.n_clusters - 1 :
          \E i \in DOMAIN call.stdout.data : call.stdout.data[i] = j

====
